---- MODULE Spec2Model ----
(***************************************************************************)
(* gocloudtrail: the ingestion pipeline of internal/processor (listers,    *)
(* downloader pool, processor pool, orchestrator Run), the JSONL sink of   *)
(* internal/writer, the dedup filter of internal/bloom and the state store *)
(* (internal/state, held in bloom.go lines 91-172 of this tree).           *)
(*                                                                         *)
(* S3 keys are sequences of naturals compared lexicographically, as Go     *)
(* compares strings: <<p, n, e>> is "<prefix p>/AWSLogs/.../<object n>"    *)
(* with e = 1 for the suffix ".json.gz"; <<>> is the empty string.         *)
(***************************************************************************)
EXTENDS Integers, Sequences, FiniteSets, TLC

\* ---- bounds of the model ------------------------------------------------
NumKeys == 2            \* .json.gz objects under the first trail's prefix
DownloadQueueSize == 1  \* config download_queue_size
DownloadWorkers == 1    \* config download_workers
MaxFaults == 1          \* injected I/O failures per behaviour
MaxTicks == 1           \* ticker firings per run

\* ---- program constants --------------------------------------------------
CheckpointEvery == 100  \* discovery.go: filesListed%100 == 0

ProcessQueueSize == 1   \* config process_queue_size
ProcessWorkers == 1     \* config process_workers
ListBatchSize == 1      \* config list_batch_size
EventsPerFile == 2      \* config events_per_file

LongKeys == 101         \* .json.gz objects under the long trail's prefix

Trails == {"t1", "t2", "t3"}
Downloaders == 1..DownloadWorkers
Account == "111111111111"
Region == "us-east-1"

VARIABLES
  trailBucket,    \* config: Trail.Bucket of each trail, "" if not configured
  run,            \* number of the current process run (1 = first)
  cancelled,      \* ctx.Done() of the signal context
  mainPc,         \* position of Run
  lister,         \* per trail: the processAccountRegion goroutine
  downloadJobs,   \* chan DownloadJob (buffered)
  dl,             \* per downloader: position and job held
  processJobs,    \* chan ProcessedFile (buffered)
  pr,             \* per processor: position, remaining records, record
  buffers,        \* JSONLWriter.buffers
  nextFileCounter,\* JSONLWriter.nextFileCounter
  files,          \* events_dir on disk: path -> lines
  bloomMem,       \* Filter.filter (exact set: no false positives)
  bloomDisk,      \* ids in the file at Filter.path
  bloomWhole,     \* the file at Filter.path is absent or a complete image
  bloomTmp,       \* the file at Filter.path + ".tmp": <<>> if absent
  saver,          \* per caller of Save: position and open file
  runErr,         \* what Run returned: "" (nil or not yet), "canceled", "error"
  stateDB,        \* table state: triple -> last_processed_key
  dbClosed,       \* stateDB.Close() was called
  stats,          \* Stats counters
  ticks,          \* firings of the flush / save tickers in this run
  faults,         \* injected I/O failures so far
  disc,           \* discovery of one trail: the bucket layout, position,
                  \* accounts, orgID and pairs found
  hist            \* history (ghost) record used by the properties

vars == <<trailBucket, run, cancelled, mainPc, lister, downloadJobs, dl,
          processJobs, pr, buffers, nextFileCounter, files, bloomMem,
          bloomDisk, bloomWhole, bloomTmp, saver, runErr, stateDB, dbClosed,
          stats, ticks, faults, disc, hist>>

\* the processWorker goroutines Run started
Processors == DOMAIN pr

\* the files and positions that Save works on
saveVars == <<bloomWhole, bloomTmp, saver>>

\* ---- keys ----------------------------------------------------------------
RECURSIVE KeyLess(_, _)
KeyLess(a, b) ==
  IF b = <<>> THEN FALSE
  ELSE IF a = <<>> THEN TRUE
  ELSE IF a[1] # b[1] THEN a[1] < b[1]
  ELSE KeyLess(Tail(a), Tail(b))

KeyLeq(a, b) == a = b \/ KeyLess(a, b)

HasSuffixJsonGz(key) == key[3] = 1

\* The objects under the search prefix of trail t's (account, region): the
\* second trail holds an object that is no .json.gz (a digest file), the
\* third enough objects for the periodic checkpoint.
KeysUnder(t) ==
  CASE t = "t1" -> {<<1, n, 1>> : n \in 1..NumKeys}
    [] t = "t2" -> {<<2, 1, 1>>, <<2, 2, 0>>}
    [] t = "t3" -> {<<3, n, 1>> : n \in 1..LongKeys}

StateKey(t) == <<trailBucket[t], Account, Region>>

Triples == {<<b, Account, Region>> : b \in {"b1", "b2", "b3"}}

\* ---- bucket content ------------------------------------------------------
\* eventTime is the hour on the clock as written (time; 0 for a string that
\* is not RFC 3339) and the UTC offset written after it (off; 0 for "Z").
Rec(id, time, recipient, uiAccount, src) ==
  [id |-> id, time |-> time, off |-> 0, recipient |-> recipient,
   uiAccount |-> uiAccount, region |-> Region, src |-> src]

\* Records array of the object at key. Object n of the first trail replays
\* the event of object n-1 (CloudTrail delivers duplicates); the second
\* trail's object holds a record with a malformed eventTime and one that
\* carries its account only in userIdentity and whose eventTime is written
\* with the offset +01:00; every object of the third
\* trail delivers the same event again.
ObjectRecords(key) ==
  CASE key[1] = 1 ->
         IF key[2] = 1 THEN <<Rec(1, 1, Account, "", key)>>
         ELSE <<Rec(key[2] - 1, 1, Account, "", key),
                Rec(key[2], 1, Account, "", key)>>
    [] key[1] = 2 -> <<Rec(60, 0, Account, "", key),
                       [Rec(50, 2, "", Account, key) EXCEPT !.off = 1]>>
    [] key[1] = 3 -> <<Rec(70, 3, Account, "", <<3, 1, 1>>)>>

AllKeys == UNION {KeysUnder(t) : t \in Trails}

\* ---- S3 ListObjectsV2 ------------------------------------------------------
MinKey(S) == CHOOSE k \in S : \A j \in S : KeyLeq(k, j)

RECURSIVE FirstN(_, _)
FirstN(S, n) ==
  IF n = 0 \/ S = {} THEN <<>>
  ELSE <<MinKey(S)>> \o FirstN(S \ {MinKey(S)}, n - 1)

\* One page of the listing of trail t's search prefix: the keys after
\* `after` in lexicographic order, at most MaxKeys = ListBatchSize of them.
ListObjectsV2(t, after) ==
  LET rest == {k \in KeysUnder(t) : KeyLess(after, k)}
  IN [contents |-> FirstN(rest, ListBatchSize),
      truncated |-> Cardinality(rest) > ListBatchSize]

\* ---- helpers ---------------------------------------------------------------
Inc(s, f) == [s EXCEPT ![f] = @ + 1]

Put(f, k, v) == [x \in DOMAIN f \cup {k} |-> IF x = k THEN v ELSE f[x]]

ZeroStats ==
  [FilesListed |-> 0, FilesDownloaded |-> 0, FilesProcessed |-> 0,
   EventsProcessed |-> 0, EventsWritten |-> 0, EventsDuplicate |-> 0,
   Errors |-> 0]

NewLister ==
  [pc |-> "discover", lastKey |-> <<>>, cursor |-> <<>>, more |-> TRUE,
   page |-> <<>>, filesListed |-> 0, lastSeenKey |-> <<>>]

NewDownloader == [pc |-> "idle", job |-> <<>>, records |-> <<>>]

NewProcessor == [pc |-> "idle", job |-> <<>>, records |-> <<>>, cur |-> <<>>]

\* History of one run: the state rows at its start, the jobs pushed into the
\* download queue, the last value each triple's row was set to, the trails
\* (by prefix) of which a file was processed, and that set at the moment of
\* cancellation, the number of jobs a downloader has finished handling and
\* the ids of the records whose sink write returned an error, those records
\* each with the file paths obtained up to that error, the numbers of failed
\* state-store calls and of failed S3 lists at a trail's root, per lister
\* the number of jobs sent since its last upsert call and the key of the
\* job it sent last, the records the sink's Write took with no error, in
\* the order of the calls, the numbers of jobs the downloaders dropped and
\* forwarded to the process queue, the file paths
\* the flushes obtained and whether one was obtained twice, the deferred
\* calls of Run in the order they were made; over all runs,
\* the ids ever written to a file and the runs that were cancelled.
NewHist(db) ==
  [startKeys |-> db, enqueued |-> {}, lastUpsert |-> [tr \in Triples |-> <<>>],
   processed |-> {}, processedAtCancel |-> {}, handled |-> 0,
   paths |-> {}, pathTwice |-> FALSE, chain |-> <<>>,
   writeErr |-> {}, lost |-> {}, dbFails |-> 0, rootFails |-> 0,
   sinceUpsert |-> [t \in Trails |-> 0], lastSent |-> [t \in Trails |-> <<>>],
   written |-> <<>>, dropped |-> 0, forwarded |-> 0,
   emitted |-> {}, cancelledRuns |-> {}]

\* The callers of Filter.Save: the bloomSaver goroutine and Run's deferred
\* function.
Savers == {"periodic", "final"}

\* fd: where the file a caller has open is now: "tmp" (at path.tmp), "path"
\* (renamed over the target), "gone" (replaced, no name left), "none".
NewSaver == [pc |-> "idle", fd |-> "none"]

\* ---- bucket layout under a trail's base prefix (AWSLogs/) ------------------
\* A layout: nFlat accounts 1..nFlat directly under the base prefix, the
\* organizations orgs (o-1, o-2) each with the nOrg accounts 1000*o + 1 ..
\* 1000*o + nOrg under it, and nReg regions under CloudTrail/ of every
\* account.
Layout(nFlat, orgs, nOrg, nReg) ==
  [nFlat |-> nFlat, orgs |-> orgs, nOrg |-> nOrg, nReg |-> nReg]

\* one account directly under the base prefix, one region
FlatLayout == Layout(1, {}, 0, 1)

\* The region prefixes that exist in the bucket: <<o, a, r>> is
\* base/o-<o>/<a>/CloudTrail/<r>/, and base/<a>/CloudTrail/<r>/ for o = 0.
RegionPrefixes(l) ==
  {<<0, a, r>> : a \in 1..l.nFlat, r \in 1..l.nReg}
    \cup {<<o, 1000 * o + i, r>> : o \in l.orgs, i \in 1..l.nOrg, r \in 1..l.nReg}

\* The first n of the entries S in the order S3 lists them.
FirstEntries(S, n) ==
  {k \in S : Cardinality({j \in S : KeyLess(j, k)}) < n}

\* MaxKeys of the two probes of discoverAccounts
RootMaxKeys == 100
OrgMaxKeys == 1000

\* CommonPrefixes of the listing of the base prefix with delimiter "/":
\* <<0, a>> for a 12-digit account, <<1, o>> for "o-<o>" (digits sort before
\* letters). One call, not paginated.
RootProbe(l) ==
  FirstEntries({<<0, x[2]>> : x \in {y \in RegionPrefixes(l) : y[1] = 0}}
                 \cup {<<1, o>> : o \in l.orgs}, RootMaxKeys)

\* CommonPrefixes of the listing of base/o-<o>/: one call, not paginated.
OrgProbe(l, o) ==
  FirstEntries({<<x[2]>> : x \in {y \in RegionPrefixes(l) : y[1] = o}}, OrgMaxKeys)

\* discoverAccounts: the accounts (a map's keys) and the orgID, which is
\* the o-* entry the loop over the root listing saw last (0 for "").
discoverAccounts(l) ==
  LET root == RootProbe(l)
      orgsSeen == {e[2] : e \in {x \in root : x[1] = 1}}
  IN [accounts |-> {e[2] : e \in {x \in root : x[1] = 0}}
                     \cup UNION {{e[1] : e \in OrgProbe(l, o)} : o \in orgsSeen},
      orgID |-> IF orgsSeen = {} THEN 0
                ELSE CHOOSE o \in orgsSeen : \A q \in orgsSeen : q <= o]

\* The prefix (as the place <<o, a>>) discoverAccountRegions and
\* processAccountRegion use for account acct: with the orgID when there is
\* one, for every account.
ProbePlace(orgID, acct) == <<orgID, acct>>

\* discoverAccountRegions: for every account the regions under its
\* CloudTrail/ prefix (paginated), each as one pair with the place listed.
discoverAccountRegions(l, accounts, orgID) ==
  {[AccountID |-> x[2], Region |-> x[3], place |-> <<x[1], x[2]>>] :
     x \in {y \in RegionPrefixes(l) :
              /\ y[2] \in accounts
              /\ <<y[1], y[2]>> = ProbePlace(orgID, y[2])}}

NewDiscovery(l) ==
  [layout |-> l, pc |-> "accounts", accounts |-> {}, orgID |-> 0, pairs |-> {}]

\* ---- initial state: the first run, right after processor.New, for the
\* configured trails tb (trail -> bucket) ---------------------------------------
InitPool(tb, pc0, l, workers) ==
  /\ trailBucket = tb
  /\ run = 1
  /\ cancelled = FALSE
  /\ mainPc = "discover"
  /\ lister = [t \in Trails |-> IF tb[t] = "" THEN [NewLister EXCEPT !.pc = "off"]
                                 ELSE [NewLister EXCEPT !.pc = pc0]]
  /\ downloadJobs = <<>>
  /\ dl = [w \in Downloaders |-> NewDownloader]
  /\ processJobs = <<>>
  /\ pr = [w \in 1..workers |-> NewProcessor]
  /\ buffers = [k \in {} |-> <<>>]
  /\ nextFileCounter = [k \in {} |-> 0]
  /\ files = [k \in {} |-> <<>>]
  /\ bloomMem = {}
  /\ bloomDisk = {}
  /\ bloomWhole = TRUE
  /\ bloomTmp = <<>>
  /\ saver = [c \in Savers |-> NewSaver]
  /\ runErr = ""
  /\ stateDB = [tr \in Triples |-> <<>>]
  /\ dbClosed = FALSE
  /\ stats = ZeroStats
  /\ ticks = 0
  /\ faults = 0
  /\ disc = NewDiscovery(l)
  /\ hist = NewHist([tr \in Triples |-> <<>>])

\* config process_workers processors
InitLayout(tb, pc0, l) == InitPool(tb, pc0, l, ProcessWorkers)

\* a trail whose bucket has one account directly under AWSLogs/
InitMode(tb, pc0) == InitLayout(tb, pc0, FlatLayout)

\* trails given in the configuration: discoverAndProcess starts on them
InitWith(tb) == InitMode(tb, "discover")

\* two trails, each with its own bucket
Init == InitWith([t \in Trails |-> CASE t = "t1" -> "b1" [] t = "t2" -> "b2" [] OTHER -> ""])

\* two trails that share a bucket (with different prefixes)
InitShared == InitWith([t \in Trails |-> IF t \in {"t1", "t2"} THEN "b1" ELSE ""])

\* one trail with more than CheckpointEvery objects
InitLong == InitWith([t \in Trails |-> IF t = "t3" THEN "b3" ELSE ""])

\* one trail
InitOne == InitWith([t \in Trails |-> IF t = "t1" THEN "b1" ELSE ""])

\* no trail in the configuration: the trails (here one) are those that
\* DescribeTrails returns
InitApi == InitMode([t \in Trails |-> IF t = "t1" THEN "b1" ELSE ""], "api")

\* ---- injected failures ---------------------------------------------------
\* An I/O call fails (f = TRUE) or not; failures are bounded by MaxFaults.
Fault(f) ==
  /\ f \in BOOLEAN
  /\ f => faults < MaxFaults
  /\ faults' = faults + (IF f THEN 1 ELSE 0)

\* ---- state store -----------------------------------------------------------
\* GetLastProcessedKey: the row's key, "" for a missing row or on error.
GetLastProcessedKey(t, failed) ==
  IF failed THEN <<>> ELSE stateDB[StateKey(t)]

\* UpdateLastProcessedKey: the upsert sets last_processed_key := key.
UpdateLastProcessedKey(t, key, failed) ==
  /\ stateDB' = IF failed THEN stateDB ELSE [stateDB EXCEPT ![StateKey(t)] = key]
  /\ hist' = IF failed THEN [hist EXCEPT !.dbFails = @ + 1,
                                         !.sinceUpsert[t] = 0]
             ELSE [hist EXCEPT !.lastUpsert[StateKey(t)] = key,
                               !.sinceUpsert[t] = 0]

\* ---- lister: processConfigTrail / processAccountRegion ---------------------
Listers == {t \in Trails : trailBucket[t] # ""}

\* discoverAccounts + discoverAccountRegions of the trail: when the S3 list
\* at the trail's root fails (f) or is cancelled, discoverAccounts logs it
\* and returns no account, so no pair is found and the trail ends.
ListerDiscover(t) ==
  /\ lister[t].pc = "discover"
  /\ \E f \in BOOLEAN :
       /\ Fault(f)
       /\ lister' = [lister EXCEPT ![t].pc =
                       IF f \/ cancelled THEN "done" ELSE "start"]
       /\ hist' = IF f THEN [hist EXCEPT !.rootFails = @ + 1] ELSE hist
  /\ UNCHANGED <<saveVars, runErr, disc>>
  /\ UNCHANGED <<trailBucket, run, cancelled, mainPc, downloadJobs, dl,
                 processJobs, pr, buffers, nextFileCounter, files, bloomMem,
                 bloomDisk, stateDB, dbClosed, stats, ticks>>

\* lines 142-177: read the checkpoint, build the input with StartAfter.
ListerStart(t) ==
  /\ lister[t].pc = "start"
  /\ \E f \in BOOLEAN :
       /\ Fault(f)
       /\ lister' = [lister EXCEPT ![t].pc = "page",
                                   ![t].lastKey = GetLastProcessedKey(t, f),
                                   ![t].cursor = GetLastProcessedKey(t, f),
                                   ![t].more = TRUE]
       /\ hist' = IF f THEN [hist EXCEPT !.dbFails = @ + 1] ELSE hist
  /\ UNCHANGED <<saveVars, runErr, disc>>
  /\ UNCHANGED <<trailBucket, run, cancelled, mainPc, downloadJobs, dl,
                 processJobs, pr, buffers, nextFileCounter, files, bloomMem,
                 bloomDisk, stateDB, dbClosed, stats, ticks>>

\* lastSeenKey, were it assigned above the suffix test
SeenKeyAny(key, prev) == key

\* The key remembered as lastSeenKey for a listed object (lines 191-197).
SeenKey(key, prev) == IF HasSuffixJsonGz(key) THEN key ELSE prev

\* lines 188-197 of the loop over page.Contents, from lister record l whose
\* page starts at the next object: keys without the suffix are skipped; at a
\* .json.gz key the counters and lastSeenKey are set and the lister stands
\* before the send; at the end of the page it stands before HasMorePages,
\* and after the last page before the final checkpoint.
RECURSIVE NextObject(_)
NextObject(l) ==
  IF l.page = <<>>
  THEN [l EXCEPT !.pc = IF l.more THEN "page" ELSE "final"]
  ELSE IF ~HasSuffixJsonGz(Head(l.page))
       THEN NextObject([l EXCEPT !.page = Tail(@),
                                 !.lastSeenKey = SeenKey(Head(l.page), @)])
       ELSE [l EXCEPT !.pc = "send",
                      !.filesListed = @ + 1,
                      !.lastSeenKey = SeenKey(Head(l.page), @)]

\* FilesListed.Add(1), once when the lister comes to stand before a send.
ListedUncounted(st, l) == st

Listed(st, l) == IF l.pc = "send" THEN Inc(st, "FilesListed") ELSE st

\* lines 178-197: HasMorePages / NextPage; an error (a cancelled context is
\* one) counts in Errors and returns without the final checkpoint.
ListerNextPage(t) ==
  /\ lister[t].pc = "page"
  /\ \E f \in BOOLEAN :
       /\ Fault(f)
       /\ IF f \/ cancelled
          THEN /\ stats' = Inc(stats, "Errors")
               /\ lister' = [lister EXCEPT ![t].pc = "done"]
          ELSE LET resp == ListObjectsV2(t, lister[t].cursor)
                   n == Len(resp.contents)
                   l2 == NextObject([lister[t] EXCEPT
                           !.page = resp.contents,
                           !.more = resp.truncated,
                           !.cursor = IF n = 0 THEN @ ELSE resp.contents[n]])
               IN /\ lister' = [lister EXCEPT ![t] = l2]
                  /\ stats' = Listed(stats, l2)
  /\ UNCHANGED <<saveVars, runErr, disc>>
  /\ UNCHANGED <<trailBucket, run, cancelled, mainPc, downloadJobs, dl,
                 processJobs, pr, buffers, nextFileCounter, files, bloomMem,
                 bloomDisk, stateDB, dbClosed, ticks, hist>>

\* a channel with no capacity limit
DownloadQueueHasRoomAlways(q) == TRUE

\* Room in the buffered channel downloadJobs (make(chan, DownloadQueueSize)).
DownloadQueueHasRoom(q) == Len(q) < DownloadQueueSize

\* a lister that never takes the periodic checkpoint
CheckpointDueNever(n) == FALSE

\* filesListed%100 == 0
CheckpointDue(n) == n % CheckpointEvery = 0

\* lines 199-207: the blocking send of the DownloadJob; then the periodic
\* checkpoint if it is due, else the next object.
ListerSend(t) ==
  /\ lister[t].pc = "send"
  /\ DownloadQueueHasRoom(downloadJobs)
  /\ LET key == Head(lister[t].page)
         l2 == IF CheckpointDue(lister[t].filesListed)
               THEN [lister[t] EXCEPT !.pc = "ckpt"]
               ELSE NextObject([lister[t] EXCEPT !.page = Tail(@)])
     IN /\ downloadJobs' = Append(downloadJobs,
                                  [Bucket |-> trailBucket[t], Key |-> key])
        /\ hist' = [hist EXCEPT !.enqueued = @ \cup {<<t, key>>},
                                !.sinceUpsert[t] = @ + 1,
                                !.lastSent[t] = key]
        /\ lister' = [lister EXCEPT ![t] = l2]
        /\ stats' = Listed(stats, l2)
  /\ UNCHANGED <<saveVars, runErr, disc>>
  /\ UNCHANGED <<trailBucket, run, cancelled, mainPc, dl, processJobs, pr,
                 buffers, nextFileCounter, files, bloomMem, bloomDisk,
                 stateDB, dbClosed, ticks, faults>>

\* lines 207-213: the periodic checkpoint, then the next object.
ListerCheckpoint(t) ==
  /\ lister[t].pc = "ckpt"
  /\ \E f \in BOOLEAN :
       /\ Fault(f)
       /\ UpdateLastProcessedKey(t, Head(lister[t].page), f)
  /\ LET l2 == NextObject([lister[t] EXCEPT !.page = Tail(@)])
     IN /\ lister' = [lister EXCEPT ![t] = l2]
        /\ stats' = Listed(stats, l2)
  /\ UNCHANGED <<saveVars, runErr, disc>>
  /\ UNCHANGED <<trailBucket, run, cancelled, mainPc, downloadJobs, dl,
                 processJobs, pr, buffers, nextFileCounter, files, bloomMem,
                 bloomDisk, dbClosed, ticks>>

\* lines 217-227: the final checkpoint after pagination completed.
ListerFinal(t) ==
  /\ lister[t].pc = "final"
  /\ IF lister[t].filesListed > 0
     THEN \E f \in BOOLEAN :
            /\ Fault(f)
            /\ UpdateLastProcessedKey(t, lister[t].lastSeenKey, f)
     ELSE UNCHANGED <<stateDB, hist, faults>>
  /\ lister' = [lister EXCEPT ![t].pc = "done"]
  /\ UNCHANGED <<saveVars, runErr, disc>>
  /\ UNCHANGED <<trailBucket, run, cancelled, mainPc, downloadJobs, dl,
                 processJobs, pr, buffers, nextFileCounter, files, bloomMem,
                 bloomDisk, dbClosed, stats, ticks>>

\* ---- downloader: downloadWorker ---------------------------------------------
DownloadClosed == mainPc # "discover" /\ runErr = ""

\* for job := range p.downloadJobs
DlReceive(w) ==
  /\ dl[w].pc = "idle"
  /\ downloadJobs # <<>>
  /\ dl' = [dl EXCEPT ![w].pc = "get", ![w].job = Head(downloadJobs)]
  /\ downloadJobs' = Tail(downloadJobs)
  /\ UNCHANGED <<saveVars, runErr, disc>>
  /\ UNCHANGED <<trailBucket, run, cancelled, mainPc, lister, processJobs, pr,
                 buffers, nextFileCounter, files, bloomMem, bloomDisk,
                 stateDB, dbClosed, stats, ticks, faults, hist>>

\* the range loop ends when the channel is closed and drained
DlExit(w) ==
  /\ dl[w].pc = "idle"
  /\ downloadJobs = <<>>
  /\ DownloadClosed
  /\ dl' = [dl EXCEPT ![w].pc = "exit"]
  /\ UNCHANGED <<saveVars, runErr, disc>>
  /\ UNCHANGED <<trailBucket, run, cancelled, mainPc, lister, downloadJobs,
                 processJobs, pr, buffers, nextFileCounter, files, bloomMem,
                 bloomDisk, stateDB, dbClosed, stats, ticks, faults, hist>>

\* lines 166-214: GetObject, ReadAll, gunzip, JSON decode. GetObject with a
\* cancelled context fails. "get": GetObject or ReadAll failed; "decode":
\* gzip or JSON failed after the body was read.
DlFetch(w) ==
  /\ dl[w].pc = "get"
  /\ \E o \in {"ok", "get", "decode"} :
       /\ Fault(o # "ok" /\ ~cancelled)
       /\ cancelled => o = "get"
       /\ CASE o = "get" ->
                 /\ stats' = Inc(stats, "Errors")
                 /\ dl' = [dl EXCEPT ![w] = NewDownloader]
            [] o = "decode" ->
                 /\ stats' = Inc(Inc(stats, "FilesDownloaded"), "Errors")
                 /\ dl' = [dl EXCEPT ![w] = NewDownloader]
            [] o = "ok" ->
                 /\ stats' = Inc(stats, "FilesDownloaded")
                 /\ dl' = [dl EXCEPT ![w].pc = "push",
                                     ![w].records = ObjectRecords(dl[w].job.Key)]
       /\ hist' = IF o = "ok" THEN hist
                  ELSE [hist EXCEPT !.handled = @ + 1,
                                    !.dropped = @ + 1]
  /\ UNCHANGED <<saveVars, runErr, disc>>
  /\ UNCHANGED <<trailBucket, run, cancelled, mainPc, lister, downloadJobs,
                 processJobs, pr, buffers, nextFileCounter, files, bloomMem,
                 bloomDisk, stateDB, dbClosed, ticks>>

\* lines 216-219: the blocking send of the ProcessedFile
DlPush(w) ==
  /\ dl[w].pc = "push"
  /\ Len(processJobs) < ProcessQueueSize
  /\ processJobs' = Append(processJobs,
                           [Job |-> dl[w].job, Records |-> dl[w].records])
  /\ dl' = [dl EXCEPT ![w] = NewDownloader]
  /\ hist' = [hist EXCEPT !.handled = @ + 1,
                          !.forwarded = @ + 1]
  /\ UNCHANGED <<saveVars, runErr, disc>>
  /\ UNCHANGED <<trailBucket, run, cancelled, mainPc, lister, downloadJobs, pr,
                 buffers, nextFileCounter, files, bloomMem, bloomDisk,
                 stateDB, dbClosed, stats, ticks, faults>>

\* ---- JSONL sink: internal/writer ---------------------------------------------
\* time.Parse(time.RFC3339, minimal.EventTime): the instant, in hours UTC,
\* and the zone offset the Time value keeps from the string.
ParseRFC3339(r) == [utc |-> r.time - r.off, zone |-> r.off]

\* eventTime.Format("2006/01/02/15"): the hour on the clock of the zone the
\* Time value carries.
Format(t) == t.utc + t.zone

\* Write: key := "{account}/{region}/{eventTime as 2006/01/02/15}"
PartitionKey(accountID, region, eventTime) ==
  <<accountID, region, Format(eventTime)>>

BufferOf(bufs, key) == IF key \in DOMAIN bufs THEN bufs[key] ELSE <<>>

CounterOf(ctrs, key) == IF key \in DOMAIN ctrs THEN ctrs[key] ELSE 0

\* What a flush of `events` can do: succeed, fail before the file exists
\* (MkdirAll, Create), or fail while writing, leaving a prefix in the file.
FlushOutcomes(events) ==
  {<<"ok", 0>>, <<"nofile", 0>>} \cup {<<"partial", n>> : n \in 0..(Len(events) - 1)}

\* a counter that stays at zero
FlushCounterZero(ctrs, key) == 0

\* The file counter a flush of partition `key` uses for its path.
FlushCounter(ctrs, key) == CounterOf(ctrs, key)

\* flushBufferLocked(key, buf) on sink state w = [buffers, counters, files],
\* with outcome o: the sink state after it, and whether it returned an error.
flushBufferLocked(w, key, o) ==
  LET events == BufferOf(w.buffers, key)
      counter == FlushCounter(w.counters, key)
      path == <<key, counter>>
  IN IF events = <<>>
     THEN [w EXCEPT !.err = FALSE]
     ELSE [paths |-> Append(w.paths, path),
           buffers |-> IF o[1] = "ok" THEN Put(w.buffers, key, <<>>)
                       ELSE w.buffers,
           counters |-> Put(w.counters, key, CounterOf(w.counters, key) + 1),
           files |-> CASE o[1] = "ok" -> Put(w.files, path, events)
                       [] o[1] = "partial" ->
                            Put(w.files, path, SubSeq(events, 1, o[2]))
                       [] OTHER -> w.files,
           err |-> o[1] # "ok"]

Sink == [buffers |-> buffers, counters |-> nextFileCounter, files |-> files,
         err |-> FALSE, paths |-> <<>>]

\* The history after a sink operation that obtained the file paths ps.
Obtained(h, ps) ==
  LET got == {ps[i] : i \in 1..Len(ps)}
  IN [h EXCEPT !.paths = @ \cup got,
               !.pathTwice = \/ @
                             \/ got \cap h.paths # {}
                             \/ Cardinality(got) # Len(ps)]


\* an event put at the front of the buffer
BufferAddFront(events, rawEvent) == <<rawEvent>> \o events

\* buf.events = append(buf.events, rawEvent)
BufferAdd(events, rawEvent) == Append(events, rawEvent)

\* a threshold test that lets the buffer grow one record further
BufferFullLate(n) == n > EventsPerFile

\* len(buf.events) >= w.eventsPerFile
BufferFull(n) == n >= EventsPerFile

\* Write(accountID, region, eventTime, rawEvent) with flush outcome o
Write(accountID, region, eventTime, rawEvent, o) ==
  LET key == PartitionKey(accountID, region, eventTime)
      w1 == [Sink EXCEPT !.buffers =
                Put(buffers, key, BufferAdd(BufferOf(buffers, key), rawEvent))]
  IN IF BufferFull(Len(w1.buffers[key]))
     THEN flushBufferLocked(w1, key, o)
     ELSE w1

RECURSIVE FlushKeys(_, _, _)
FlushKeys(w, keys, oc) ==
  IF keys = {} THEN w
  ELSE LET k == CHOOSE x \in keys : TRUE
       IN FlushKeys(flushBufferLocked(w, k, oc[k]), keys \ {k}, oc)

\* Ids of the events in the files fs.
IdsIn(fs) == UNION {{fs[p][i].id : i \in 1..Len(fs[p])} : p \in DOMAIN fs}

\* FlushAll(): every buffer is flushed; a failed one is logged and the rest
\* still run. oc gives each partition's outcome, h the history so far.
FlushAll(h) ==
  \E oc \in [DOMAIN buffers -> {<<"ok", 0>>, <<"nofile", 0>>}
                               \cup {<<"partial", n>> : n \in 0..EventsPerFile}] :
    LET failing == {k \in DOMAIN buffers : oc[k][1] # "ok"}
        w2 == FlushKeys(Sink, DOMAIN buffers, oc)
    IN /\ \A k \in DOMAIN buffers : oc[k] \in FlushOutcomes(buffers[k])
       /\ \A k \in failing : buffers[k] # <<>>
       /\ faults + Cardinality(failing) <= MaxFaults
       /\ faults' = faults + Cardinality(failing)
       /\ buffers' = w2.buffers
       /\ nextFileCounter' = w2.counters
       /\ files' = w2.files
       /\ hist' = [Obtained(h, w2.paths) EXCEPT
                     !.emitted = @ \cup IdsIn(w2.files)]

\* ---- dedup filter: internal/bloom --------------------------------------------
\* a filter that reports no member
TestNever(id) == FALSE

\* Test(): membership in the in-memory filter
Test(id) == id \in bloomMem

\* an Add that leaves the filter as it was
AddNothing(id) == bloomMem

\* Add(): the filter's contents after it
Add(id) == bloomMem \cup {id}

\* Save() by caller c, lines 66-70: os.Create(path + ".tmp"). An existing
\* temp file is truncated in place, so every caller that has it open now
\* holds the emptied file. On failure Save returns at once.
SaveCreate(c, failed) ==
  IF failed
  THEN UNCHANGED <<bloomDisk, bloomWhole, bloomTmp, saver>>
  ELSE /\ bloomTmp' = [ids |-> {}, whole |-> FALSE]
       /\ saver' = [saver EXCEPT ![c] = [pc |-> "write", fd |-> "tmp"]]
       /\ UNCHANGED <<bloomDisk, bloomWhole>>

\* lines 72-81: WriteTo under the read lock, then Close. The image goes into
\* the file the caller has open, wherever that file is by now.
SaveWrite(c) ==
  /\ saver[c].pc = "write"
  /\ mainPc # "exited"
  /\ saver' = [saver EXCEPT ![c].pc = "rename"]
  /\ bloomTmp' = IF saver[c].fd = "tmp"
                 THEN [ids |-> bloomMem, whole |-> TRUE] ELSE bloomTmp
  /\ bloomDisk' = IF saver[c].fd = "path" THEN bloomMem ELSE bloomDisk
  /\ bloomWhole' = IF saver[c].fd = "path" THEN TRUE ELSE bloomWhole

\* lines 83-88: os.Rename(tmpFile, f.path); it fails when another caller
\* has renamed the temp file away. Save returns.
SaveRename(c) ==
  /\ saver[c].pc = "rename"
  /\ mainPc # "exited"
  /\ IF bloomTmp = <<>>
     THEN /\ saver' = [saver EXCEPT ![c] = NewSaver]
          /\ UNCHANGED <<bloomDisk, bloomWhole, bloomTmp>>
     ELSE /\ bloomDisk' = bloomTmp.ids
          /\ bloomWhole' = bloomTmp.whole
          /\ bloomTmp' = <<>>
          /\ saver' = [d \in Savers |->
                         IF d = c THEN NewSaver
                         ELSE [saver[d] EXCEPT !.fd =
                                 CASE @ = "tmp" -> "path"
                                   [] @ = "path" -> "gone"
                                   [] OTHER -> @]]

\* ---- processor: processWorker ------------------------------------------------
ProcessClosed == mainPc \notin {"discover", "waitDl"} /\ runErr = ""

\* for file := range p.processJobs
ProcReceive(w) ==
  /\ pr[w].pc = "idle"
  /\ processJobs # <<>>
  /\ pr' = [pr EXCEPT ![w].pc = "loop", ![w].job = Head(processJobs).Job,
                      ![w].records = Head(processJobs).Records]
  /\ processJobs' = Tail(processJobs)
  /\ UNCHANGED <<saveVars, runErr, disc>>
  /\ UNCHANGED <<trailBucket, run, cancelled, mainPc, lister, downloadJobs, dl,
                 buffers, nextFileCounter, files, bloomMem, bloomDisk,
                 stateDB, dbClosed, stats, ticks, faults, hist>>

ProcExit(w) ==
  /\ pr[w].pc = "idle"
  /\ processJobs = <<>>
  /\ ProcessClosed
  /\ pr' = [pr EXCEPT ![w].pc = "exit"]
  /\ UNCHANGED <<saveVars, runErr, disc>>
  /\ UNCHANGED <<trailBucket, run, cancelled, mainPc, lister, downloadJobs, dl,
                 processJobs, buffers, nextFileCounter, files, bloomMem,
                 bloomDisk, stateDB, dbClosed, stats, ticks, faults, hist>>

\* accountID := RecipientAccountID, else UserIdentity.AccountID
AccountOf(r) == IF r.recipient # "" THEN r.recipient ELSE r.uiAccount

\* What the loop body does with record r up to the sink write (lines
\* 233-260): "dup" (counted duplicate), "skip" (bad time, no account) or
\* "write".
Classify(r) ==
  IF Test(r.id) THEN "dup"
  ELSE IF r.time = 0 THEN "skip"
  ELSE IF AccountOf(r) = "" THEN "skip"
  ELSE "write"

\* a file whose end is not counted
FileDoneUncounted(st) == st

\* line 275: p.stats.FilesProcessed.Add(1)
FileDone(st) == Inc(st, "FilesProcessed")

\* lines 232-260 and 275: the next record of the file, or the end of it.
ProcRecord(w) ==
  /\ pr[w].pc = "loop"
  /\ IF pr[w].records = <<>>
     THEN /\ stats' = FileDone(stats)
          /\ pr' = [pr EXCEPT ![w] = NewProcessor]
          /\ hist' = [hist EXCEPT !.processed = @ \cup {pr[w].job.Key[1]}]
     ELSE LET r == Head(pr[w].records)
              c == Classify(r)
          IN /\ stats' = IF c = "dup"
                         THEN Inc(Inc(stats, "EventsProcessed"), "EventsDuplicate")
                         ELSE Inc(stats, "EventsProcessed")
             /\ pr' = [pr EXCEPT ![w].records = Tail(@),
                                 ![w].pc = IF c = "write" THEN "write" ELSE "loop",
                                 ![w].cur = IF c = "write" THEN r ELSE <<>>]
             /\ UNCHANGED hist
  /\ UNCHANGED <<saveVars, runErr, disc>>
  /\ UNCHANGED <<trailBucket, run, cancelled, mainPc, lister, downloadJobs, dl,
                 processJobs, buffers, nextFileCounter, files, bloomMem,
                 bloomDisk, stateDB, dbClosed, ticks, faults>>

\* lines 262-267: p.jsonlWriter.Write; on error the record is not added.
ProcWrite(w) ==
  /\ pr[w].pc = "write"
  /\ LET r == pr[w].cur
         key == PartitionKey(AccountOf(r), r.region, ParseRFC3339(r))
         full == BufferFull(Len(BufferOf(buffers, key)) + 1)
     IN \E o \in FlushOutcomes(Append(BufferOf(buffers, key), r)) :
          LET w2 == Write(AccountOf(r), r.region, ParseRFC3339(r), r, o)
          IN /\ ~full => o[1] = "ok"
             /\ Fault(o[1] # "ok")
             /\ buffers' = w2.buffers
             /\ nextFileCounter' = w2.counters
             /\ files' = w2.files
             /\ hist' = [Obtained(hist, w2.paths) EXCEPT
                           !.emitted = @ \cup IdsIn(w2.files),
                           !.writeErr = IF w2.err THEN @ \cup {r.id} ELSE @,
                           !.written = IF w2.err THEN @ ELSE Append(@, r),
                           !.lost = IF w2.err
                                    THEN @ \cup {[rec |-> r, before |->
                                           Obtained(hist, w2.paths).paths]}
                                    ELSE @]
             /\ pr' = [pr EXCEPT ![w].pc = IF w2.err THEN "loop" ELSE "add",
                                 ![w].cur = IF w2.err THEN <<>> ELSE @]
  /\ UNCHANGED <<saveVars, runErr, disc>>
  /\ UNCHANGED <<trailBucket, run, cancelled, mainPc, lister, downloadJobs, dl,
                 processJobs, bloomMem, bloomDisk, stateDB, dbClosed, stats,
                 ticks>>

\* lines 269-272: p.bloomFilter.Add, EventsWritten
ProcAdd(w) ==
  /\ pr[w].pc = "add"
  /\ bloomMem' = Add(pr[w].cur.id)
  /\ stats' = Inc(stats, "EventsWritten")
  /\ pr' = [pr EXCEPT ![w].pc = "loop", ![w].cur = <<>>]
  /\ UNCHANGED <<saveVars, runErr, disc>>
  /\ UNCHANGED <<trailBucket, run, cancelled, mainPc, lister, downloadJobs, dl,
                 processJobs, buffers, nextFileCounter, files, bloomDisk,
                 stateDB, dbClosed, ticks, faults, hist>>

\* ---- background tickers (jsonlFlusher, bloomSaver) ---------------------------
\* Each goroutine selects between ctx.Done() and its ticker until the
\* process ends; a tick that is ready together with Done may still be taken.
PeriodicFlush ==
  /\ mainPc # "exited"
  /\ ticks < MaxTicks
  /\ ticks' = ticks + 1
  /\ FlushAll(hist)
  /\ UNCHANGED <<saveVars, runErr, disc>>
  /\ UNCHANGED <<trailBucket, run, cancelled, mainPc, lister, downloadJobs, dl,
                 processJobs, pr, bloomMem, bloomDisk, stateDB, dbClosed,
                 stats>>

\* bloomSaver takes a tick and calls Save
PeriodicSave ==
  /\ mainPc # "exited"
  /\ ticks < MaxTicks
  /\ saver["periodic"].pc = "idle"
  /\ ticks' = ticks + 1
  /\ \E f \in BOOLEAN : Fault(f) /\ SaveCreate("periodic", f)
  /\ UNCHANGED <<disc, trailBucket, runErr, run, cancelled, mainPc, lister, downloadJobs, dl,
                 processJobs, pr, buffers, nextFileCounter, files, bloomMem,
                 stateDB, dbClosed, stats, hist>>

\* bloomSaver inside Save: the write and the rename
PeriodicSaveWrite ==
  /\ SaveWrite("periodic")
  /\ UNCHANGED <<disc, trailBucket, runErr, run, cancelled, mainPc, lister, downloadJobs, dl,
                 processJobs, pr, buffers, nextFileCounter, files, bloomMem,
                 stateDB, dbClosed, stats, ticks, faults, hist>>

PeriodicSaveRename ==
  /\ SaveRename("periodic")
  /\ UNCHANGED <<disc, trailBucket, runErr, run, cancelled, mainPc, lister, downloadJobs, dl,
                 processJobs, pr, buffers, nextFileCounter, files, bloomMem,
                 stateDB, dbClosed, stats, ticks, faults, hist>>

\* ---- orchestrator: Run --------------------------------------------------------
\* SIGINT / SIGTERM cancels the context while Run is in its body.
Cancel ==
  /\ ~cancelled
  /\ mainPc \in {"discover", "waitDl", "waitProc"}
  /\ cancelled' = TRUE
  /\ hist' = [hist EXCEPT !.processedAtCancel = hist.processed,
                          !.cancelledRuns = @ \cup {run}]
  /\ UNCHANGED <<saveVars, runErr, disc>>
  /\ UNCHANGED <<trailBucket, run, mainPc, lister, downloadJobs, dl,
                 processJobs, pr, buffers, nextFileCounter, files, bloomMem,
                 bloomDisk, stateDB, dbClosed, stats, ticks, faults>>

\* discoverAndProcess returned (every trail goroutine is done):
\* close(p.downloadJobs)
MainCloseDownload ==
  /\ mainPc = "discover"
  /\ \A t \in Listers : lister[t].pc = "done"
  /\ mainPc' = "waitDl"
  /\ UNCHANGED <<saveVars, runErr, disc>>
  /\ UNCHANGED <<trailBucket, run, cancelled, lister, downloadJobs, dl,
                 processJobs, pr, buffers, nextFileCounter, files, bloomMem,
                 bloomDisk, stateDB, dbClosed, stats, ticks, faults, hist>>

\* downloadWg.Wait(); close(p.processJobs)
MainCloseProcess ==
  /\ mainPc = "waitDl"
  /\ \A w \in Downloaders : dl[w].pc = "exit"
  /\ mainPc' = "waitProc"
  /\ UNCHANGED <<saveVars, runErr, disc>>
  /\ UNCHANGED <<trailBucket, run, cancelled, lister, downloadJobs, dl,
                 processJobs, pr, buffers, nextFileCounter, files, bloomMem,
                 bloomDisk, stateDB, dbClosed, stats, ticks, faults, hist>>

\* a return that runs nothing
ReturnToExit == "exited"

\* Where Run stands once it returns, with or without an error: at the
\* first call of the function deferred at lines 69-79.
ReturnTo == "flush"

\* lines 109-114: discovery through the API when no trail is configured.
\* DescribeTrails fails on a cancelled context or on its own; Run then
\* returns the error at once, leaving both channels open and the workers
\* waiting on them. Otherwise a goroutine is started for every trail.
MainDescribeTrails ==
  /\ mainPc = "discover"
  /\ \E t \in Trails : lister[t].pc = "api"
  /\ \E f \in BOOLEAN :
       /\ Fault(f)
       /\ IF f \/ cancelled
          THEN /\ runErr' = IF cancelled THEN "canceled" ELSE "error"
               /\ mainPc' = ReturnTo
               /\ lister' = [t \in Trails |->
                               IF lister[t].pc = "api"
                               THEN [lister[t] EXCEPT !.pc = "off"]
                               ELSE lister[t]]
          ELSE /\ lister' = [t \in Trails |->
                               IF lister[t].pc = "api"
                               THEN [lister[t] EXCEPT !.pc = "discover"]
                               ELSE lister[t]]
               /\ UNCHANGED <<runErr, mainPc>>
  /\ UNCHANGED <<saveVars, disc>>
  /\ UNCHANGED <<trailBucket, run, cancelled, downloadJobs, dl, processJobs,
                 pr, buffers, nextFileCounter, files, bloomMem, bloomDisk,
                 stateDB, dbClosed, stats, ticks, hist>>

\* processWg.Wait(); return nil: the deferred calls start
MainReturn ==
  /\ mainPc = "waitProc"
  /\ \A w \in Processors : pr[w].pc = "exit"
  /\ mainPc' = ReturnTo
  /\ UNCHANGED <<saveVars, runErr, disc>>
  /\ UNCHANGED <<trailBucket, run, cancelled, lister, downloadJobs, dl,
                 processJobs, pr, buffers, nextFileCounter, files, bloomMem,
                 bloomDisk, stateDB, dbClosed, stats, ticks, faults, hist>>

\* deferred: p.jsonlWriter.FlushAll()
MainFinalFlush ==
  /\ mainPc = "flush"
  /\ mainPc' = "save"
  /\ FlushAll([hist EXCEPT !.chain = Append(@, "flush")])
  /\ UNCHANGED <<saveVars, runErr, disc>>
  /\ UNCHANGED <<trailBucket, run, cancelled, lister, downloadJobs, dl,
                 processJobs, pr, bloomMem, bloomDisk, stateDB, dbClosed,
                 stats, ticks>>

\* deferred: p.bloomFilter.Save(), which is not waited on by and does not
\* wait for a Save the bloomSaver goroutine is still in
MainFinalSave ==
  /\ mainPc = "save"
  /\ saver["final"].pc = "idle"
  /\ \E f \in BOOLEAN :
       /\ Fault(f)
       /\ SaveCreate("final", f)
       /\ mainPc' = IF f THEN "close" ELSE "save"
  /\ hist' = [hist EXCEPT !.chain = Append(@, "save")]
  /\ UNCHANGED <<disc, trailBucket, runErr, run, cancelled, lister, downloadJobs, dl,
                 processJobs, pr, buffers, nextFileCounter, files, bloomMem,
                 stateDB, dbClosed, stats, ticks>>

MainFinalSaveWrite ==
  /\ mainPc = "save"
  /\ SaveWrite("final")
  /\ UNCHANGED <<disc, trailBucket, runErr, run, cancelled, mainPc, lister, downloadJobs, dl,
                 processJobs, pr, buffers, nextFileCounter, files, bloomMem,
                 stateDB, dbClosed, stats, ticks, faults, hist>>

MainFinalSaveRename ==
  /\ mainPc = "save"
  /\ SaveRename("final")
  /\ mainPc' = "close"
  /\ UNCHANGED <<disc, trailBucket, runErr, run, cancelled, lister, downloadJobs, dl,
                 processJobs, pr, buffers, nextFileCounter, files, bloomMem,
                 stateDB, dbClosed, stats, ticks, faults, hist>>

\* deferred: p.stateDB.Close(); Run has returned and the process ends
MainCloseDB ==
  /\ mainPc = "close"
  /\ mainPc' = "exited"
  /\ dbClosed' = TRUE
  /\ hist' = [hist EXCEPT !.chain = Append(@, "close")]
  /\ UNCHANGED <<saveVars, runErr, disc>>
  /\ UNCHANGED <<trailBucket, run, cancelled, lister, downloadJobs, dl,
                 processJobs, pr, buffers, nextFileCounter, files, bloomMem,
                 bloomDisk, stateDB, stats, ticks, faults>>

\* ---- the next run of the program on the same state_db, bloom_file and
\* events_dir: state.Open, bloom.Load, processor.New (writer.New) -------------
MaxRuns == 2

StartNextRun ==
  /\ mainPc = "exited"
  /\ run < MaxRuns
  /\ run' = run + 1
  /\ cancelled' = FALSE
  /\ mainPc' = "discover"
  /\ lister' = [t \in Trails |-> IF t \in Listers THEN NewLister ELSE lister[t]]
  /\ downloadJobs' = <<>>
  /\ dl' = [w \in Downloaders |-> NewDownloader]
  /\ processJobs' = <<>>
  /\ pr' = [w \in Processors |-> NewProcessor]
  /\ buffers' = [k \in {} |-> <<>>]
  /\ nextFileCounter' = [k \in {} |-> 0]
  /\ bloomMem' = IF bloomWhole THEN bloomDisk ELSE {}
  /\ saver' = [c \in Savers |-> NewSaver]
  /\ runErr' = ""
  /\ dbClosed' = FALSE
  /\ stats' = ZeroStats
  /\ ticks' = 0
  /\ hist' = [NewHist(stateDB) EXCEPT !.emitted = hist.emitted,
                                      !.writeErr = hist.writeErr,
                                      !.cancelledRuns = hist.cancelledRuns]
  /\ UNCHANGED <<disc, trailBucket, files, bloomDisk, bloomWhole, bloomTmp,
                 stateDB, faults>>

\* ---- specifications -----------------------------------------------------------
ListerStep ==
  \E t \in Trails :
    \/ ListerDiscover(t)
    \/ ListerStart(t)
    \/ ListerNextPage(t)
    \/ ListerSend(t)
    \/ ListerFinal(t)

WorkerStep ==
  \/ \E w \in Downloaders :
       \/ DlReceive(w)
       \/ DlExit(w)
       \/ DlFetch(w)
       \/ DlPush(w)
  \/ \E w \in Processors :
       \/ ProcReceive(w)
       \/ ProcExit(w)
       \/ ProcRecord(w)
       \/ ProcWrite(w)
       \/ ProcAdd(w)

MainStep ==
  \/ Cancel
  \/ MainCloseDownload
  \/ MainCloseProcess
  \/ MainReturn
  \/ MainFinalFlush
  \/ MainFinalSave
  \/ MainFinalSaveWrite
  \/ MainFinalSaveRename
  \/ MainCloseDB

TickerStep ==
  \/ PeriodicFlush
  \/ PeriodicSave
  \/ PeriodicSaveWrite
  \/ PeriodicSaveRename

\* One run of the program. With fewer than CheckpointEvery objects under
\* every prefix no lister reaches the periodic checkpoint.
Next == ListerStep \/ WorkerStep \/ MainStep \/ TickerStep

\* two trails with a bucket each
Spec == Init /\ [][Next]_vars

SpecShared == InitShared /\ [][Next]_vars

\* One run over the long trail, in which the periodic checkpoint is
\* reached; the tickers, which touch the sink and the filter image only,
\* are left out.
NextLong ==
  \/ ListerStep
  \/ \E t \in Trails : ListerCheckpoint(t)
  \/ WorkerStep
  \/ MainStep

SpecLong == InitLong /\ [][NextLong]_vars

\* One run of any of the three trail configurations, periodic checkpoint
\* included, without the tickers.
InitAny == Init \/ InitShared \/ InitLong

SpecListers == InitAny /\ [][NextLong]_vars

\* One run with no trail configured, the one trail coming from
\* DescribeTrails.
NextApi == Next \/ MainDescribeTrails

SpecApi == InitApi /\ [][NextApi]_vars

\* ---- discovery alone: discoverAccounts, then discoverAccountRegions, on
\* the bucket layouts of a trail -----------------------------------------------
MaxOrgs == 2
MaxRegions == 2

Layouts ==
  {Layout(f, o, n, r) : f \in {0, 1, RootMaxKeys + 1}, o \in SUBSET (1..MaxOrgs),
                        n \in {1, OrgMaxKeys + 1}, r \in 1..MaxRegions}

InitDiscovery ==
  \E l \in Layouts :
    InitLayout([t \in Trails |-> IF t = "t1" THEN "b1" ELSE ""], "discover", l)

\* processConfigTrail: accounts, orgID := p.discoverAccounts(...)
DiscoverAccounts ==
  /\ mainPc = "discover"
  /\ disc.pc = "accounts"
  /\ disc' = [disc EXCEPT !.pc = "regions",
                          !.accounts = discoverAccounts(disc.layout).accounts,
                          !.orgID = discoverAccounts(disc.layout).orgID]
  /\ UNCHANGED <<saveVars, runErr>>
  /\ UNCHANGED <<trailBucket, run, cancelled, mainPc, lister, downloadJobs, dl,
                 processJobs, pr, buffers, nextFileCounter, files, bloomMem,
                 bloomDisk, stateDB, dbClosed, stats, ticks, faults, hist>>

\* processConfigTrail: pairs := p.discoverAccountRegions(...); the
\* goroutines per account share only the slice, under its mutex, and are
\* all joined before it is returned.
DiscoverRegions ==
  /\ mainPc = "discover"
  /\ disc.pc = "regions"
  /\ disc' = [disc EXCEPT !.pc = "done",
                          !.pairs = discoverAccountRegions(disc.layout,
                                      disc.accounts, disc.orgID)]
  /\ UNCHANGED <<saveVars, runErr>>
  /\ UNCHANGED <<trailBucket, run, cancelled, mainPc, lister, downloadJobs, dl,
                 processJobs, pr, buffers, nextFileCounter, files, bloomMem,
                 bloomDisk, stateDB, dbClosed, stats, ticks, faults, hist>>

NextDiscovery == DiscoverAccounts \/ DiscoverRegions

SpecDiscovery == InitDiscovery /\ [][NextDiscovery]_vars

\* ---- the sink alone: records written to it one after the other, then one
\* FlushAll ------------------------------------------------------------------
MaxWrites == 6

\* the eventTime hours of the records written
SinkHours == {1, 2}

\* One call of Write that returns nil, for a record of hour h.
SinkWrite(h) ==
  /\ mainPc = "discover"
  /\ Len(hist.written) < MaxWrites
  /\ LET r == Rec(Len(hist.written) + 1, h, Account, "", <<1, 1, 1>>)
         w2 == Write(AccountOf(r), r.region, ParseRFC3339(r), r, <<"ok", 0>>)
     IN /\ buffers' = w2.buffers
        /\ nextFileCounter' = w2.counters
        /\ files' = w2.files
        /\ hist' = [Obtained(hist, w2.paths) EXCEPT
                      !.written = Append(@, r),
                      !.emitted = @ \cup IdsIn(w2.files)]
  /\ UNCHANGED <<saveVars, runErr, disc>>
  /\ UNCHANGED <<trailBucket, run, cancelled, mainPc, lister, downloadJobs, dl,
                 processJobs, pr, bloomMem, bloomDisk, stateDB, dbClosed,
                 stats, ticks, faults>>

\* The one FlushAll that ends the sequence of writes.
SinkFlushAll ==
  /\ mainPc = "discover"
  /\ mainPc' = "save"
  /\ FlushAll(hist)
  /\ UNCHANGED <<saveVars, runErr, disc>>
  /\ UNCHANGED <<trailBucket, run, cancelled, lister, downloadJobs, dl,
                 processJobs, pr, bloomMem, bloomDisk, stateDB, dbClosed,
                 stats, ticks>>

NextSink == (\E h \in SinkHours : SinkWrite(h)) \/ SinkFlushAll

SpecSink == InitOne /\ [][NextSink]_vars

\* ---- one run of one trail with one processor more, so that two processors
\* work on the trail's two objects at the same time ------------------------------
InitOrder ==
  InitPool([t \in Trails |-> IF t = "t1" THEN "b1" ELSE ""], "discover",
           FlatLayout, ProcessWorkers + 1)

SpecOrder == InitOrder /\ [][Next]_vars

\* ---- fair scheduling ---------------------------------------------------------
\* The steps of Run itself, without the signal.
MainProgress ==
  \/ MainCloseDownload
  \/ MainCloseProcess
  \/ MainReturn
  \/ MainFinalFlush
  \/ MainFinalSave
  \/ MainFinalSaveWrite
  \/ MainFinalSaveRename
  \/ MainCloseDB

\* Every goroutine that can take a step is eventually scheduled; the
\* tickers and the signal are left to the environment.
Fair ==
  /\ WF_vars(ListerStep)
  /\ WF_vars(WorkerStep)
  /\ WF_vars(MainProgress)

\* one run of one configured trail under fair scheduling
SpecLive == InitOne /\ [][Next]_vars /\ Fair

\* one run with discovery through the API under fair scheduling
SpecApiLive == InitApi /\ [][NextApi]_vars /\ Fair /\ WF_vars(MainDescribeTrails)

\* successive runs of one trail on the same persistent files
NextRuns == Next \/ StartNextRun

SpecRuns == InitOne /\ [][NextRuns]_vars

\* ---- properties ---------------------------------------------------------------
\* The event ids a run with no interruption and no failure writes for the
\* configured trails: those of the records with a parseable eventTime and
\* an account.
ExpectedIds ==
  UNION {UNION {{ObjectRecords(k)[i].id :
                   i \in {j \in 1..Len(ObjectRecords(k)) :
                            /\ ObjectRecords(k)[j].time # 0
                            /\ AccountOf(ObjectRecords(k)[j]) # ""}} :
                k \in {x \in KeysUnder(t) : HasSuffixJsonGz(x)}} : t \in Listers}

\* The first component of the keys under the prefix of trail t.
PrefixOf(t) == (CHOOSE k \in KeysUnder(t) : TRUE)[1]

\* The records in the output files that came from objects of trail t.
WrittenFrom(t) ==
  UNION {{files[p][i] : i \in {j \in 1..Len(files[p]) :
                                  files[p][j].src \in KeysUnder(t)}} :
          p \in DOMAIN files}

\* C1 (resumption idempotence): when a run is interrupted and the program
\* is run again to completion with no failure of the environment, the event
\* ids in the output are those of one uninterrupted run; no object that was
\* enqueued but not yet written at the interruption is skipped by the later
\* run. Stated on the ids ever written to a file, so that it does not
\* depend on what became of the files afterwards.
C1_ResumptionIdempotence ==
  (/\ run = 2 /\ mainPc = "exited" /\ ~cancelled
   /\ 1 \in hist.cancelledRuns /\ faults = 0)
    => ExpectedIds \subseteq hist.emitted

\* C2 (output integrity across runs): while nothing in the environment has
\* failed, an output file that a flush has written keeps its path and its
\* content under every later step, in this run and in the next one on the
\* same events_dir.
C2_OutputFilesKept ==
  [][faults' = 0 =>
       \A p \in DOMAIN files : p \in DOMAIN files' /\ files'[p] = files[p]]_vars

\* C3 (resume correctness): when a run was cancelled and has shut down with
\* no failure of the environment, for every trail of which a file was fully
\* processed before the cancellation the checkpoint stored for its triple
\* is at least the key of every object of that trail with an event in the
\* output.
C3_CheckpointCoversOutput ==
  (mainPc = "exited" /\ cancelled /\ faults = 0)
    => \A t \in Listers :
         PrefixOf(t) \in hist.processedAtCancel
           => \A r \in WrittenFrom(t) : KeyLeq(r.src, stateDB[StateKey(t)])

\* C4 (dedup persistence): after the shutdown whose final save of the
\* filter succeeded, the filter image on disk contains the id of every
\* event in an output file, events written by a later flush after their
\* first flush failed included.
C4_SavedFilterCoversOutput ==
  (mainPc = "exited" /\ bloomDisk = bloomMem) => IdsIn(files) \subseteq bloomDisk

C6_CheckpointsNonDecreasing ==
  [][\A tr \in Triples :
       KeyLeq(hist.lastUpsert[tr], hist'.lastUpsert[tr])]_vars

\* C7 (start-after correctness): no job enqueued in a run has a key less
\* than or equal to the last_processed_key its triple had in the state
\* store when the run started, whether or not the read of it succeeded.
C7_StartAfter ==
  \A e \in hist.enqueued : ~KeyLeq(e[2], hist.startKeys[StateKey(e[1])])

\* C8 (checkpoint is an enqueued key): the last_processed_key stored for a
\* triple is the value it had when the run started or a key that a lister
\* of that triple has pushed into the download queue.
C8_CheckpointEnqueued ==
  \A t \in Listers :
     \/ stateDB[StateKey(t)] = hist.startKeys[StateKey(t)]
     \/ \E u \in Listers : /\ StateKey(u) = StateKey(t)
                            /\ <<u, stateDB[StateKey(t)]>> \in hist.enqueued

\* C8 witness: a periodic checkpoint has stored a key while the lister is
\* still listing.
C8_Witness ==
  \E t \in Listers :
     /\ lister[t].pc \in {"send", "page"}
     /\ lister[t].filesListed >= CheckpointEvery
     /\ stateDB[StateKey(t)] # hist.startKeys[StateKey(t)]
     /\ <<t, stateDB[StateKey(t)]>> \in hist.enqueued

\* C9 (dedup soundness): when a processor takes a record whose event_id is
\* in the filter, the step counts it in EventsDuplicate and passes nothing
\* to the sink; the filter loaded by a later run counts the same way.
C9_DuplicateNotWritten ==
  [][\A w \in Processors :
       (/\ pr[w].pc = "loop"
        /\ pr[w].records # <<>>
        /\ Head(pr[w].records).id \in bloomMem
        /\ pr'[w] # pr[w])
         => /\ stats'.EventsDuplicate = stats.EventsDuplicate + 1
            /\ stats'.EventsWritten = stats.EventsWritten
            /\ pr'[w].pc = "loop"
            /\ buffers' = buffers
            /\ files' = files]_vars

\* C9 witness: in the second run a record was counted duplicate through the
\* filter image the first run saved, the event being in the first run's
\* output.
C9_Witness ==
  /\ run = 2
  /\ stats.EventsDuplicate > 0
  /\ stats.EventsWritten = 0
  /\ bloomMem = bloomDisk
  /\ bloomMem \subseteq IdsIn(files)

\* Download jobs enqueued whose handling by a downloader has not finished.
InFlight == Cardinality(hist.enqueued) - hist.handled

\* C10 (backpressure): the download jobs in flight never exceed the queue
\* capacity plus the number of downloaders.
C10_Backpressure == InFlight <= DownloadQueueSize + DownloadWorkers

\* C10 witness: the queue is full, every downloader holds a job and a
\* lister waits with the next one.
C10_Witness ==
  /\ InFlight = DownloadQueueSize + DownloadWorkers
  /\ \E t \in Listers : lister[t].pc = "send"

\* C11 (atomic replace): in every state the file at the bloom_file path is
\* absent or a complete filter image, also while the periodic saver and the
\* final save are both inside Save. Checked where nothing in the
\* environment has failed.
C11_ImageWhole == faults = 0 => bloomWhole

\* C12 (one writer per file): the flushes of a run, whether inline in
\* Write, periodic or final, each obtain a (partition key, counter) pair
\* that no other flush of the run obtained. Each flush is one step of the
\* model because Write and FlushAll hold the writer's mutex throughout.
C12_FlushPathsDistinct == ~hist.pathTwice

\* C12 witness: two flushes of one partition have obtained paths.
C12_Witness ==
  \E p \in hist.paths : \E q \in hist.paths : p[1] = q[1] /\ p[2] # q[2]

\* The UTC hour of the eventTime of record r.
UTCHour(r) == r.time - r.off

\* C13 (output partitioning): every record in a file of partition
\* {A}/{R}/{hour} has account A, region R and an eventTime within that UTC
\* hour, whatever UTC offset the eventTime is written with.
C13_PartitionMatchesRecord ==
  \A p \in DOMAIN files : \A i \in 1..Len(files[p]) :
     /\ AccountOf(files[p][i]) = p[1][1]
     /\ files[p][i].region = p[1][2]
     /\ UTCHour(files[p][i]) = p[1][3]

\* The goroutine of trail t is inside processAccountRegion.
Running(t) == lister[t].pc \in {"start", "page", "send", "ckpt", "final"}

\* C14 (one lister per triple): at no time are two listers running for the
\* same (bucket, account, region), also when two trails share a bucket.
C14_OneListerPerTriple ==
  \A t \in Listers : \A u \in Listers :
     (t # u /\ StateKey(t) = StateKey(u)) => ~(Running(t) /\ Running(u))

\* The deferred calls of Run, in order.
ShutdownChain == <<"flush", "save", "close">>

\* C15 (shutdown chain): the deferred calls are made in the order flush
\* sink, save filter, close state store, and when Run has returned, after
\* normal completion, cancellation or an error of trail discovery, all
\* three have been made.
C15_ShutdownChainRuns ==
  /\ Len(hist.chain) <= 3
  /\ hist.chain = SubSeq(ShutdownChain, 1, Len(hist.chain))
  /\ mainPc = "exited" => hist.chain = ShutdownChain /\ dbClosed

\* C15 witness: Run has returned the error of DescribeTrails and the three
\* calls were made.
C15_Witness ==
  /\ mainPc = "exited"
  /\ runErr = "error"
  /\ hist.chain = ShutdownChain

\* C16 (cancellation stops intake): once the run is cancelled no downloader
\* receives a further job from the download queue.
C16_NoDequeueAfterCancel ==
  [][cancelled => \A w \in Downloaders :
       dl[w].pc = "idle" => dl'[w].pc # "get"]_vars

\* C17 (final checkpoint on every ending): a lister that has ended after
\* enqueuing at least one job has, when no I/O call failed, last set its
\* triple's row to the last key it enqueued.
C17_EndedListerCheckpointed ==
  \A t \in Listers :
    (lister[t].pc = "done" /\ lister[t].filesListed > 0 /\ faults = 0)
      => hist.lastUpsert[StateKey(t)] = lister[t].lastSeenKey

\* C18 (failed sink write loses the record): a record whose sink write
\* returned an error is in no output file that a later flush of the run
\* wrote.
C18_FailedRecordNotEmitted ==
  \A e \in hist.lost : \A p \in DOMAIN files \ e.before :
    \A i \in 1..Len(files[p]) : files[p][i] # e.rec

\* C19 (state-store failures are counted): a step in which a state-store
\* call fails (the read of the last key, or a checkpoint upsert) increments
\* the errors counter.
C19_StateStoreFailureCounted ==
  [][hist'.dbFails > hist.dbFails => stats'.Errors > stats.Errors]_vars

\* C20 (root list failure is counted): a step in which the S3 list at a
\* trail's root fails increments the errors counter.
C20_RootListFailureCounted ==
  [][hist'.rootFails > hist.rootFails => stats'.Errors > stats.Errors]_vars

\* C21 (checkpoint every 100 files): a lister has sent at most
\* CheckpointEvery jobs since its last upsert call; when it stands before a
\* send it has sent fewer, so the upsert due after the 100*n-th job comes
\* before the next job is sent; and the key of a periodic upsert is the key
\* of the job sent last.
C21_CheckpointEvery100 ==
  \A t \in Listers :
    /\ hist.sinceUpsert[t] <= CheckpointEvery
    /\ lister[t].pc = "send" => hist.sinceUpsert[t] < CheckpointEvery
    /\ lister[t].pc = "ckpt" =>
         /\ Head(lister[t].page) = hist.lastSent[t]
         /\ hist.sinceUpsert[t] = CheckpointEvery

\* C21 witness: a lister has sent its 100th job, upserted that job's key
\* and stands before the send of the next job.
C21_Witness ==
  \E t \in Listers :
    /\ lister[t].pc = "send"
    /\ lister[t].filesListed = CheckpointEvery + 1
    /\ hist.sinceUpsert[t] = 0
    /\ stateDB[StateKey(t)] = hist.lastSent[t]

\* The partition key the sink gives record r.
KeyOfRecord(r) == PartitionKey(AccountOf(r), r.region, ParseRFC3339(r))

\* The records of partition key among the sequence rs, in order.
RECURSIVE OfPartition(_, _)
OfPartition(rs, key) ==
  IF rs = <<>> THEN <<>>
  ELSE IF KeyOfRecord(Head(rs)) = key
       THEN <<Head(rs)>> \o OfPartition(Tail(rs), key)
       ELSE OfPartition(Tail(rs), key)

\* C22 (file rotation): after n writes to a partition with no failure and
\* no flush other than the one FlushAll at the end, the partition has
\* exactly the files numbered 0 .. ceil(n/E) - 1, the first floor(n/E) of
\* them with E records and the last with n mod E records when that is not
\* zero.
C22_FilesPerPartition ==
  (mainPc = "save" /\ faults = 0) =>
    \A h \in SinkHours :
      LET key == <<Account, Region, h>>
          n == Len(OfPartition(hist.written, key))
          E == EventsPerFile
          count == (n + E - 1) \div E
      IN /\ {p \in DOMAIN files : p[1] = key} = {<<key, c>> : c \in 0..(count - 1)}
         /\ \A c \in 0..(count - 1) :
              Len(files[<<key, c>>]) = IF c < n \div E THEN E ELSE n % E

\* C22 witness: five records were written to one partition and flushed
\* with no failure: three files, the last with one record.
C22_Witness ==
  /\ mainPc = "save"
  /\ faults = 0
  /\ \E h \in SinkHours :
       /\ Len(OfPartition(hist.written, <<Account, Region, h>>)) = 2 * EventsPerFile + 1
       /\ <<<<Account, Region, h>>, 2>> \in DOMAIN files
       /\ Len(files[<<<<Account, Region, h>>, 2>>]) = 1

\* The (account, region) pairs a layout holds.
AllPairs(l) == {<<x[2], x[3]>> : x \in RegionPrefixes(l)}

\* A layout of one kind: accounts directly under the base prefix only, or
\* one organization only.
Uniform(l) == l.orgs = {} \/ (l.nFlat = 0 /\ Cardinality(l.orgs) = 1)

\* C23 (discovery is complete): for a trail that is flat or rooted in one
\* organization, the pairs discovery returns are all the (account, region)
\* pairs of the bucket, whatever the number of accounts.
C23_AllPairsDiscovered ==
  (disc.pc = "done" /\ Uniform(disc.layout)) =>
    {<<p.AccountID, p.Region>> : p \in disc.pairs} = AllPairs(disc.layout)

\* C24 (layout per account): when no probe is cut short by its max_keys,
\* every account directly under the base prefix is probed at its own flat
\* prefix, so each of its regions is a pair found there, also when an o-*
\* entry exists next to it.
C24_FlatAccountAtFlatPrefix ==
  (/\ disc.pc = "done"
   /\ disc.layout.nFlat + Cardinality(disc.layout.orgs) <= RootMaxKeys
   /\ disc.layout.nOrg <= OrgMaxKeys) =>
    \A x \in RegionPrefixes(disc.layout) :
      x[1] = 0 => [AccountID |-> x[2], Region |-> x[3], place |-> <<0, x[2]>>]
                    \in disc.pairs

\* Run has returned or is in its deferred function.
Returning == mainPc \in {"flush", "save", "close", "exited"}

\* C25 (shutdown ordering): the download queue is closed only when every
\* lister has returned, the process queue only when every downloader has
\* exited, and the final flush starts only when every processor has exited.
C25_ShutdownOrder ==
  /\ DownloadClosed => \A t \in Listers : lister[t].pc \in {"done", "off"}
  /\ ProcessClosed => \A w \in Downloaders : dl[w].pc = "exit"
  /\ Returning => \A w \in Processors : pr[w].pc = "exit"

AllListersReturned == \A t \in Listers : lister[t].pc = "done"

PoolsExited ==
  /\ \A w \in Downloaders : dl[w].pc = "exit"
  /\ \A w \in Processors : pr[w].pc = "exit"

\* Downloader w ends the handling of its job in this step.
JobEnds(w) == dl[w].pc \in {"get", "push"} /\ dl'[w].pc = "idle"

\* C26 (every job gets one outcome, then termination): under fair
\* scheduling, once all listers have returned Run eventually returns with
\* both pools exited. A downloader ends the handling of a job either by
\* dropping it, which adds one to errors and sends nothing, or by sending
\* it once to the process queue, which leaves errors as it is. When Run
\* has returned the jobs dropped and the jobs forwarded are together the
\* jobs that were sent, and files_processed counts the forwarded ones.
C26_EveryJobOneOutcome ==
  /\ AllListersReturned ~> (mainPc = "exited" /\ PoolsExited)
  /\ [](mainPc = "exited" =>
         /\ hist.dropped + hist.forwarded = Cardinality(hist.enqueued)
         /\ stats.FilesProcessed = hist.forwarded)
  /\ [][\A w \in Downloaders : JobEnds(w) =>
         \/ /\ hist'.dropped = hist.dropped + 1
            /\ hist'.forwarded = hist.forwarded
            /\ stats'.Errors = stats.Errors + 1
            /\ processJobs' = processJobs
         \/ /\ hist'.dropped = hist.dropped
            /\ hist'.forwarded = hist.forwarded + 1
            /\ stats'.Errors = stats.Errors
            /\ processJobs' = Append(processJobs,
                                 [Job |-> dl[w].job, Records |-> dl[w].records])]_vars

\* C26 witness: Run has returned after one job was dropped and another was
\* forwarded and processed.
C26_Witness ==
  /\ mainPc = "exited"
  /\ hist.dropped = 1
  /\ hist.forwarded = 1
  /\ stats.FilesProcessed = 1
  /\ stats.Errors >= 1

\* Where record r stands in the output of its partition: <<file counter,
\* line>> of each occurrence.
Occurrences(r) ==
  UNION {{<<p[2], i>> : i \in {j \in 1..Len(files[p]) : files[p][j] = r}} :
           p \in {q \in DOMAIN files : q[1] = KeyOfRecord(r)}}

\* order by file counter, then by line
Before(x, y) == x[1] < y[1] \/ (x[1] = y[1] /\ x[2] < y[2])

\* C27 (input order within a partition): of two records of one object that
\* are in the output of the same partition, the one that comes first in
\* the object's Records array stands before the other, ordered by file
\* counter and then by line.
C27_InputOrderKept ==
  \A k \in AllKeys :
    \A i \in 1..Len(ObjectRecords(k)) : \A j \in 1..Len(ObjectRecords(k)) :
      LET a == ObjectRecords(k)[i]
          b == ObjectRecords(k)[j]
      IN (i < j /\ KeyOfRecord(a) = KeyOfRecord(b) /\ Occurrences(a) # {}) =>
           \A y \in Occurrences(b) : \E x \in Occurrences(a) : Before(x, y)

\* C27 witness: both records of the second object are in the output, in
\* input order, with the record of the first object, written by the other
\* processor, between them.
C27_Witness ==
  LET a == ObjectRecords(<<1, 2, 1>>)[1]
      b == ObjectRecords(<<1, 2, 1>>)[2]
      c == ObjectRecords(<<1, 1, 1>>)[1]
  IN \E x \in Occurrences(a) : \E y \in Occurrences(b) : \E z \in Occurrences(c) :
       Before(x, z) /\ Before(z, y)

\* The final FlushAll of the deferred function has been made and Run has
\* not yet returned.
FinalBegun == mainPc \in {"save", "close"}

\* C28 (tickers are quiet during shutdown): once the final flush/save has
\* begun no periodic Save is in progress, and no periodic Save or FlushAll
\* starts.
C28_NoPeriodicDuringShutdown ==
  /\ [](FinalBegun => saver["periodic"].pc = "idle")
  /\ [][FinalBegun => ticks' = ticks]_vars

\* C29 (no worker left behind): when Run has returned both queues are
\* closed and every downloader and processor has exited.
C29_ReturnedMeansPoolsExited ==
  mainPc = "exited" => (DownloadClosed /\ ProcessClosed /\ PoolsExited)

\* C30 (termination after cancellation): under fair scheduling, after the
\* cancellation Run eventually returns, every lister has returned and
\* both pools have exited.
C30_CancelledRunReturns ==
  cancelled ~> (/\ mainPc = "exited"
                /\ \A t \in Listers : lister[t].pc \in {"done", "off"}
                /\ PoolsExited)


\* ---- C31 ---------------------------------------------------------------------

CounterNames == DOMAIN ZeroStats

CountersOrdered ==
  /\ stats.FilesProcessed <= stats.FilesDownloaded
  /\ stats.FilesDownloaded <= stats.FilesListed
  /\ stats.EventsWritten + stats.EventsDuplicate <= stats.EventsProcessed

\* C31: in every reachable state files_processed <= files_downloaded <=
\* files_listed and events_written + events_duplicate <= events_processed, and
\* no step of the run lowers any counter.
C31_CountersOrderedAndMonotone ==
  /\ []CountersOrdered
  /\ [][\A c \in CounterNames : stats'[c] >= stats[c]]_vars

\* A file was listed, downloaded and processed while a later one is still on
\* its way, and its records were counted both as written and as duplicate.
C31_Witness ==
  /\ stats.FilesProcessed >= 1
  /\ stats.FilesListed > stats.FilesProcessed
  /\ stats.EventsWritten >= 1
  /\ stats.EventsDuplicate >= 1
  /\ stats.EventsWritten + stats.EventsDuplicate = stats.EventsProcessed


\* ---- C32 ---------------------------------------------------------------------
\* The sink with failing flushes: records written one after the other, each
\* Write free to fail in its inline flush, the jsonlFlusher's FlushAll between
\* them and the final FlushAll of Run.

\* One call of Write for a record of hour h; the flush it runs when the
\* buffer reaches the threshold succeeds or fails (processWorker, line 263).
FlushWrite(h) ==
  /\ mainPc = "discover"
  /\ Len(hist.written) + Cardinality(hist.writeErr) < MaxWrites
  /\ LET r == Rec(Len(hist.written) + Cardinality(hist.writeErr) + 1, h,
                  Account, "", <<1, 1, 1>>)
         key == PartitionKey(AccountOf(r), r.region, ParseRFC3339(r))
         full == BufferFull(Len(BufferOf(buffers, key)) + 1)
     IN \E o \in FlushOutcomes(Append(BufferOf(buffers, key), r)) :
          LET w2 == Write(AccountOf(r), r.region, ParseRFC3339(r), r, o)
          IN /\ ~full => o[1] = "ok"
             /\ Fault(o[1] # "ok")
             /\ buffers' = w2.buffers
             /\ nextFileCounter' = w2.counters
             /\ files' = w2.files
             /\ hist' = [Obtained(hist, w2.paths) EXCEPT
                           !.emitted = @ \cup IdsIn(w2.files),
                           !.writeErr = IF w2.err THEN @ \cup {r.id} ELSE @,
                           !.written = IF w2.err THEN @ ELSE Append(@, r)]
  /\ UNCHANGED <<saveVars, runErr, disc>>
  /\ UNCHANGED <<trailBucket, run, cancelled, mainPc, lister, downloadJobs, dl,
                 processJobs, pr, bloomMem, bloomDisk, stateDB, dbClosed,
                 stats, ticks>>

\* jsonlFlusher takes a tick and calls FlushAll.
FlushTick ==
  /\ mainPc = "discover"
  /\ ticks < MaxTicks
  /\ ticks' = ticks + 1
  /\ FlushAll(hist)
  /\ UNCHANGED <<saveVars, runErr, disc>>
  /\ UNCHANGED <<trailBucket, run, cancelled, mainPc, lister, downloadJobs, dl,
                 processJobs, pr, bloomMem, bloomDisk, stateDB, dbClosed,
                 stats>>

NextFlush == (\E h \in SinkHours : FlushWrite(h)) \/ FlushTick \/ SinkFlushAll

SpecFlush == InitOne /\ [][NextFlush]_vars

PartitionKeys == DOMAIN buffers \cup DOMAIN buffers'

\* The step ran flushBufferLocked past line 61 for partition k: it took a
\* counter value.
Flushed(k) == CounterOf(nextFileCounter', k) = CounterOf(nextFileCounter, k) + 1

FlushPath(k) == <<k, CounterOf(nextFileCounter, k)>>

\* The flush returned before line 100: the events are still in the buffer.
FlushFailed(k) == Flushed(k) /\ BufferOf(buffers', k) # <<>>

FlushSucceeded(k) == Flushed(k) /\ BufferOf(buffers', k) = <<>>

IsPrefix(a, b) == Len(a) <= Len(b) /\ SubSeq(b, 1, Len(a)) = a

\* a failed flush removes no record from the buffer and takes one counter value
FailedFlushKeepsBuffer ==
  \A k \in PartitionKeys :
    FlushFailed(k) => /\ IsPrefix(BufferOf(buffers, k), BufferOf(buffers', k))
                      /\ FlushPath(k) \notin DOMAIN files
                      /\ FlushPath(k) \in DOMAIN files' =>
                           Len(files'[FlushPath(k)]) < Len(BufferOf(buffers', k))

\* a flush that succeeds writes everything the buffer held, the records
\* kept by earlier failed flushes included, to the file of the counter value
\* it took
SucceededFlushWritesBuffer ==
  \A k \in PartitionKeys :
    FlushSucceeded(k) => /\ FlushPath(k) \in DOMAIN files' \ DOMAIN files
                         /\ IsPrefix(BufferOf(buffers, k), files'[FlushPath(k)])

\* a flush that succeeds writes between 1 and events_per_file records
SucceededFlushSize ==
  \A k \in PartitionKeys :
    FlushSucceeded(k) => /\ FlushPath(k) \in DOMAIN files'
                         /\ Len(files'[FlushPath(k)]) >= 1
                         /\ Len(files'[FlushPath(k)]) <= EventsPerFile

\* a FlushAll (of the ticker or of Run) that finds a buffer empty takes no
\* counter value and makes no file for it
NoFileForEmptyBuffer ==
  \A k \in PartitionKeys :
    (BufferOf(buffers, k) = <<>> /\ (ticks' # ticks \/ mainPc' # mainPc))
      => /\ ~Flushed(k)
         /\ FlushPath(k) \notin DOMAIN files'

\* C32: a flush that fails leaves the partition's buffer as it was and takes
\* one counter value, so that the next flush of the partition writes the same
\* records under the next file number; a flush that succeeds writes between 1
\* and events_per_file records and empties the buffer; an empty buffer makes
\* no file.
C32_FlushFailureAndSize ==
  [][/\ FailedFlushKeepsBuffer
     /\ SucceededFlushWritesBuffer
     /\ SucceededFlushSize
     /\ NoFileForEmptyBuffer]_vars

====
